---- MODULE Spec2Model ----
(***************************************************************************)
(* Model of the DERP relay inbound (protocol/tailscale DERPInbound):       *)
(* construction, the staged Start, Close, the mesh federation callbacks,   *)
(* the WebSocket upgrade handler, the STUN responder loop, the key store,  *)
(* the mesh key check and the home page selection.                         *)
(* Strings are sequences of one-character strings.                         *)
(***************************************************************************)
EXTENDS Integers, Sequences, FiniteSets, TLC

\* ------------------------------------------------------------------ bounds
MaxPeers == 2
MaxCalls == 3
MaxEvents == 3
MaxSessions == 2
MaxDatagrams == 2
MaxLoads == 4

\* ------------------------------------------------------- program constants
MeshKeyLen == 64

\* a nil pointer / absent object (objects are records)
NULL == << >>
Nil == "nil"
Empty == << >>

\* ------------------------------------------------------------- characters
HexLower == {"0", "1", "2", "3", "4", "5", "6", "7", "8", "9",
             "a", "b", "c", "d", "e", "f"}

Rep(c, n) == [i \in 1..n |-> c]

\* [0-9a-f]{n} matched at position pos of text: the position after the match,
\* or 0 when the text does not match there
RECURSIVE MatchRepeat(_, _, _)
MatchRepeat(text, pos, n) ==
    IF n = 0 THEN pos
    ELSE IF pos > Len(text) THEN 0
    ELSE IF text[pos] \notin HexLower THEN 0
    ELSE MatchRepeat(text, pos + 1, n - 1)

\* the pattern with a $ that also matches before a final newline
checkMeshKey_DollarBeforeNewline(meshKey) ==
    LET end == MatchRepeat(meshKey, 1, MeshKeyLen)
    IN  /\ end # 0
        /\ \/ end = Len(meshKey) + 1
           \/ end = Len(meshKey) /\ meshKey[end] = "\n"

\* regexp ^[0-9a-f]{64}$ : ^ anchors the match at position 1, and in Go
\* syntax $ matches only at the end of the text
checkMeshKey(meshKey) ==
    LET end == MatchRepeat(meshKey, 1, MeshKeyLen)
    IN  end # 0 /\ end = Len(meshKey) + 1

\* mesh key texts offered as mesh_psk or found in the mesh_psk_file
GoodKeyA == Rep("a", MeshKeyLen)
GoodKey0 == [i \in 1..MeshKeyLen |-> IF i % 2 = 0 THEN "0" ELSE "f"]
ShortKey == Rep("a", MeshKeyLen - 1)
LongKey == Rep("a", MeshKeyLen + 1)
UpperKey == [i \in 1..MeshKeyLen |-> IF i = 7 THEN "A" ELSE "a"]
NonHexKey == [i \in 1..MeshKeyLen |-> IF i = MeshKeyLen THEN "g" ELSE "1"]
NewlineKey == GoodKeyA \o <<"\n">>

KeyTexts == {Empty, GoodKey0, UpperKey, NewlineKey}

\* ---------------------------------------------------------------- options
\* option.DERPMeshOptions: the server address, the outbound TLS options (off,
\* on, or on with options tls.NewClient rejects) and the dialer options (a
\* detour dialer.NewWithOptions cannot resolve is "bad")
PeerOptions ==
    { [Server |-> "peerA", TLS |-> "off", Dialer |-> "ok"],
      [Server |-> "peerB", TLS |-> "on",  Dialer |-> "ok"],
      [Server |-> "peerC", TLS |-> "bad", Dialer |-> "ok"] }

RECURSIVE SeqsUpTo(_, _)
SeqsUpTo(S, n) ==
    IF n = 0 THEN {Empty}
    ELSE LET shorter == SeqsUpTo(S, n - 1)
         IN  shorter \cup {Append(s, x) : s \in {t \in shorter : Len(t) = n - 1}, x \in S}

\* option.DERPInboundOptions (the fields NewDERPInbound reads)
DERPInboundOptions ==
    [ TLSEnabled  : BOOLEAN,
      ConfigPath  : {Empty, <<"k">>},
      STUNPort    : {0, 3478},
      MeshPSK     : {Empty, GoodKeyA, UpperKey, ShortKey},
      MeshPSKFile : {Empty, <<"f">>},
      MeshWith    : SeqsUpTo(PeerOptions, MaxPeers) ]

\* ------------------------------------------------------------- key store
\* Node private keys that key.NewNode can draw
NodeKeys == {"k1", "k2"}
ZeroKey == "k0"
\* os.ReadFile on a path with no file (os.IsNotExist)
Missing == <<"ENOENT">>

\* json.Marshal(derpConfig{PrivateKey}) as a token sequence
Marshal(config) == <<"{", "PrivateKey", ":", config.PrivateKey, "}">>

\* json.Unmarshal(content, &config): an object with an optional PrivateKey
\* member; a missing member leaves the zero key, anything else is an error
Unmarshal(content) ==
    IF content = <<"{", "}">> THEN [err |-> Nil, config |-> [PrivateKey |-> ZeroKey]]
    ELSE IF /\ Len(content) = 5
            /\ content[1] = "{" /\ content[2] = "PrivateKey" /\ content[3] = ":"
            /\ content[4] \in NodeKeys \cup {ZeroKey} /\ content[5] = "}"
         THEN [err |-> Nil, config |-> [PrivateKey |-> content[4]]]
         ELSE [err |-> "json", config |-> NULL]

\* contents a partially written identity file can be left with
PartialFiles == {Empty, <<"{", "PrivateKey">>}

\* env of one key-store call: read error on an existing file, the key drawn
\* by key.NewNode, MkdirAll / WriteFile failure and what a failed write left
NoStoreErr == [readErr |-> FALSE, newKey |-> "k1", mkdirErr |-> FALSE,
               writeErr |-> FALSE, partial |-> Missing]

StoreEnv(file) ==
    IF file = Missing
    THEN {[NoStoreErr EXCEPT !.newKey = k] : k \in NodeKeys}
         \cup {[NoStoreErr EXCEPT !.mkdirErr = TRUE]}
         \cup {[NoStoreErr EXCEPT !.writeErr = TRUE, !.partial = p] :
                   p \in PartialFiles \cup {Missing}}
    ELSE {NoStoreErr, [NoStoreErr EXCEPT !.readErr = TRUE]}

\* a key store that returns the new identity without leaving a file
writeNewDERPConfig_NotPersisted(env) ==
    IF env.mkdirErr THEN [err |-> "mkdir", config |-> NULL, file |-> Missing]
    ELSE IF env.writeErr THEN [err |-> "write", config |-> NULL, file |-> env.partial]
    ELSE [err |-> Nil, config |-> [PrivateKey |-> env.newKey], file |-> Missing]

writeNewDERPConfig(env) ==
    IF env.mkdirErr THEN [err |-> "mkdir", config |-> NULL, file |-> Missing]
    ELSE IF env.writeErr THEN [err |-> "write", config |-> NULL, file |-> env.partial]
    ELSE [err |-> Nil, config |-> [PrivateKey |-> env.newKey],
          file |-> Marshal([PrivateKey |-> env.newKey])]

\* a key store that starts over when the file does not parse
readDERPConfig_RegenerateUnparsed(file, env) ==
    IF file = Missing THEN writeNewDERPConfig(env)
    ELSE IF env.readErr THEN [err |-> "read", config |-> NULL, file |-> file]
    ELSE LET u == Unmarshal(file)
         IN  IF u.err # Nil THEN writeNewDERPConfig(env)
             ELSE [err |-> u.err, config |-> u.config, file |-> file]

readDERPConfig(file, env) ==
    IF file = Missing THEN writeNewDERPConfig(env)
    ELSE IF env.readErr THEN [err |-> "read", config |-> NULL, file |-> file]
    ELSE LET u == Unmarshal(file)
         IN  [err |-> u.err, config |-> u.config, file |-> file]

\* ----------------------------------------------------------- home handler
HasPrefix(s, p) == Len(s) >= Len(p) /\ SubSeq(s, 1, Len(p)) = p

HttpPrefix == <<"h", "t", "t", "p", ":", "/", "/">>
HttpsPrefix == <<"h", "t", "t", "p", "s", ":", "/", "/">>
BlankValue == <<"b", "l", "a", "n", "k">>

\* a selection that redirects to every value it does not know
getHomeHandler_RedirectsOthers(val) ==
    IF val = Empty THEN [ok |-> TRUE, status |-> 200, body |-> "homePage", location |-> Empty]
    ELSE IF val = BlankValue THEN [ok |-> TRUE, status |-> 200, body |-> "", location |-> Empty]
    ELSE [ok |-> TRUE, status |-> 302, body |-> "", location |-> val]

getHomeHandler(val) ==
    IF val = Empty THEN [ok |-> TRUE, status |-> 200, body |-> "homePage", location |-> Empty]
    ELSE IF val = BlankValue THEN [ok |-> TRUE, status |-> 200, body |-> "", location |-> Empty]
    ELSE IF HasPrefix(val, HttpPrefix) \/ HasPrefix(val, HttpsPrefix)
         THEN [ok |-> TRUE, status |-> 302, body |-> "", location |-> val]
         ELSE [ok |-> FALSE, status |-> 0, body |-> "", location |-> Empty]

\* ------------------------------------------------------------------ state
VARIABLES
    d,             \* the DERPInbound NewDERPInbound returned, or NULL
    server,        \* d.server: the relay engine, NULL until Start builds it
    identityFile,  \* content of the file at d.configPath, or Missing
    tlsStarted,    \* d.tlsConfig was started and not closed
    tcpListening,  \* d.listener has a bound TCP listener
    udpListening,  \* d.stunListener has a bound UDP socket
    httpServing,   \* number of "go httpServer.Serve" tasks launched
    stunLoops,     \* number of "go d.loopSTUN" tasks launched
    meshLoops,     \* the "go meshClient.RunWatchConnectionLoop" tasks launched
    calls,         \* number of Start and Close invocations so far
    lastCall,      \* the last invocation: its operation, result and inputs
    forwarders,    \* the engine's forwarder table: <<key, mesh connection>>
    inbox,         \* per mesh connection: presence messages in flight to it
    applied,       \* per mesh connection: messages its watch loop handled
    wsActive,      \* /derp requests whose handler is inside s.Accept
    wsLast,        \* the last /derp request whose handler exited
    stunPc,        \* the STUN loop: "none", "reading" or "done" (returned)
    stunAddrPort,  \* loopSTUN's addrPort variable
    stunLog,       \* the datagrams loopSTUN read, each with what it sent
    stunErr,       \* loopSTUN's err variable: the result of its last read
    input,         \* the argument of a function applied on its own
    output         \* what the function returned for it, NULL before the call

inboundVars == <<d, server, identityFile, tlsStarted, tcpListening, udpListening,
                 httpServing, stunLoops, meshLoops, calls, lastCall>>

meshVars == <<forwarders, inbox, applied>>

wsVars == <<wsActive, wsLast>>

stunVars == <<stunPc, stunAddrPort, stunLog, stunErr>>

fnVars == <<input, output>>

vars == <<inboundVars, meshVars, wsVars, stunVars, fnVars>>

\* no file was read by the invocation
Unread == <<"unread">>

NoCall == [op |-> "none", err |-> Nil, read |-> Unread, attempted |-> {}, failing |-> {},
           joined |-> {}]

Call(op, err) == [NoCall EXCEPT !.op = op, !.err = err]

\* contents the identity file can have before the first start
InitialFiles == {Missing, Marshal([PrivateKey |-> "k1"]), <<"garbage">>}

InitInbound ==
    /\ d = NULL
    /\ server = NULL
    /\ identityFile \in InitialFiles
    /\ tlsStarted = FALSE
    /\ tcpListening = FALSE
    /\ udpListening = FALSE
    /\ httpServing = 0
    /\ stunLoops = 0
    /\ meshLoops = Empty
    /\ calls = 0
    /\ lastCall = NoCall

InitMeshIdle ==
    /\ forwarders = {}
    /\ inbox = Empty
    /\ applied = Empty

\* ------------------------------------------------------- NewDERPInbound
\* env: dialer.NewWithOptions / tls.NewServer failure, os.Getuid() == 0
NewEnv == [dialerErr : BOOLEAN, tlsErr : BOOLEAN, root : BOOLEAN]

\* d.configPath is not kept in d: identityFile is the file at that path
NewDERPInboundResult(options, env) ==
    IF env.dialerErr THEN [err |-> "dialer", d |-> NULL]
    ELSE IF ~options.TLSEnabled THEN [err |-> "TLS is required for DERP server", d |-> NULL]
    ELSE IF env.tlsErr THEN [err |-> "tls", d |-> NULL]
    ELSE IF options.ConfigPath = Empty /\ ~env.root THEN [err |-> "missing config_path", d |-> NULL]
    ELSE IF options.MeshPSK # Empty /\ ~checkMeshKey(options.MeshPSK)
         THEN [err |-> "invalid mesh_psk", d |-> NULL]
    ELSE [err |-> Nil,
          d |-> [ stunPort    |-> options.STUNPort,
                  home        |-> Empty,
                  meshKey     |-> options.MeshPSK,
                  meshKeyPath |-> options.MeshPSKFile,
                  meshWith    |-> options.MeshWith ]]

NewDERPInbound ==
    /\ d = NULL
    /\ \E options \in DERPInboundOptions, env \in NewEnv :
         LET r == NewDERPInboundResult(options, env)
         IN  /\ d' = r.d
             /\ lastCall' = Call("new", r.err)
    /\ UNCHANGED <<server, identityFile, tlsStarted, tcpListening, udpListening,
                   httpServing, stunLoops, meshLoops, calls>>
    /\ UNCHANGED <<meshVars, wsVars, stunVars>>
    /\ UNCHANGED fnVars

\* ------------------------------------------------------------ the engine
\* derp.NewServer + SetMeshKey, HasMeshKey, MeshKey, PrivateKey
NewServer(privateKey) == [privateKey |-> privateKey, meshKey |-> Empty]
SetMeshKey(s, meshKey) == [s EXCEPT !.meshKey = meshKey]
HasMeshKey(s) == s.meshKey # Empty

\* ----------------------------------------------------------- Start stage
\* LoadMeshKey installing the file's content without checkMeshKey
LoadMeshKey_Unchecked(dd, keyFile) ==
    IF dd.meshKey # Empty THEN [err |-> Nil, key |-> dd.meshKey, read |-> Unread]
    ELSE IF dd.meshKeyPath # Empty
         THEN IF keyFile = Missing THEN [err |-> "read mesh_psk_file", key |-> Empty, read |-> keyFile]
              ELSE [err |-> Nil, key |-> keyFile, read |-> keyFile]
         ELSE [err |-> Nil, key |-> Empty, read |-> Unread]

\* lines 156-169: the mesh key installed in the engine; keyFile is the content
\* os.ReadFile finds at d.meshKeyPath, or Missing
LoadMeshKey(dd, keyFile) ==
    IF dd.meshKey # Empty THEN [err |-> Nil, key |-> dd.meshKey, read |-> Unread]
    ELSE IF dd.meshKeyPath # Empty
         THEN IF keyFile = Missing THEN [err |-> "read mesh_psk_file", key |-> Empty, read |-> keyFile]
              ELSE IF ~checkMeshKey(keyFile)
                   THEN [err |-> "invalid mesh_psk_path file", key |-> Empty, read |-> keyFile]
                   ELSE [err |-> Nil, key |-> keyFile, read |-> keyFile]
         ELSE [err |-> Nil, key |-> Empty, read |-> Unread]

\* env of one Start stage: the key store's, the content of the mesh key file
\* (when the stage reads it) and the first of tlsConfig.Start, ListenTCP and
\* ListenUDP to fail
NoListenErr == [tlsErr |-> FALSE, tcpErr |-> FALSE, udpErr |-> FALSE]

ListenEnv ==
    {NoListenErr, [NoListenErr EXCEPT !.tlsErr = TRUE],
     [NoListenErr EXCEPT !.tcpErr = TRUE], [NoListenErr EXCEPT !.udpErr = TRUE]}

\* (a stage that fails in the key store does not get to the key file, and
\* one that fails there does not get to the listeners)
StartEnv(dd, file) ==
    LET keyFiles == IF dd.meshKey = Empty /\ dd.meshKeyPath # Empty
                    THEN KeyTexts \cup {Missing} ELSE {Missing}
        env(st, k, l) == [store |-> st, keyFile |-> k, listen |-> l]
    IN  UNION { IF readDERPConfig(file, st).err # Nil
                THEN {env(st, Missing, NoListenErr)}
                ELSE UNION { IF LoadMeshKey(dd, k).err # Nil
                             THEN {env(st, k, NoListenErr)}
                             ELSE {env(st, k, l) : l \in ListenEnv} : k \in keyFiles }
              : st \in StoreEnv(file) }

\* a Start stage that binds the STUN socket whatever the port
StartSTUN_AnyPort(dd, s, env) ==
    IF env.listen.udpErr THEN [s EXCEPT !.err = "listen udp"]
    ELSE [s EXCEPT !.udp = TRUE, !.stun = 1]

\* lines 215-221: the STUN socket and loop, after the HTTP serve task
StartSTUN(dd, s, env) ==
    IF dd.stunPort # 0
    THEN IF env.listen.udpErr THEN [s EXCEPT !.err = "listen udp"]
         ELSE [s EXCEPT !.udp = TRUE, !.stun = 1]
    ELSE s

\* lines 195-213: TLS termination, the TCP listener, the HTTP serve task
StartListeners(dd, s, env) ==
    IF env.listen.tlsErr THEN [s EXCEPT !.err = "tls start"]
    ELSE IF env.listen.tcpErr THEN [s EXCEPT !.err = "listen tcp", !.tls = TRUE]
    ELSE StartSTUN(dd, [s EXCEPT !.tls = TRUE, !.tcp = TRUE, !.http = 1], env)

\* case adapter.StartStateStart, lines 138-221
StartStageStart(dd, s, env) ==
    LET ks == readDERPConfig(s.file, env.store)
        s1 == [s EXCEPT !.file = ks.file]
        mk == LoadMeshKey(dd, env.keyFile)
        s2 == [s1 EXCEPT !.read = mk.read]
        s3 == [s2 EXCEPT !.server = SetMeshKey(NewServer(ks.config.PrivateKey), mk.key)]
    IN  IF ks.err # Nil THEN [s1 EXCEPT !.err = ks.err]
        ELSE IF mk.err # Nil THEN [s2 EXCEPT !.err = mk.err]
        ELSE IF ~getHomeHandler(dd.home).ok THEN [s3 EXCEPT !.err = "invalid home value"]
        ELSE StartListeners(dd, s3, env)

\* the fields of the state one Start stage reads and writes
StageStateOf(file, srv, tls, tcp, udp) ==
    [err |-> Nil, file |-> file, server |-> srv, tls |-> tls, tcp |-> tcp,
     udp |-> udp, http |-> 0, stun |-> 0, read |-> Unread, mesh |-> Empty]

StageState == StageStateOf(identityFile, server, tlsStarted, tcpListening, udpListening)

Apply(op, r) ==
    /\ identityFile' = r.file
    /\ server' = r.server
    /\ tlsStarted' = r.tls
    /\ tcpListening' = r.tcp
    /\ udpListening' = r.udp
    /\ httpServing' = httpServing + r.http
    /\ stunLoops' = stunLoops + r.stun
    /\ meshLoops' = meshLoops \o r.mesh
    /\ calls' = calls + 1
    /\ lastCall' = [Call(op, r.err) EXCEPT !.read = r.read]
    /\ stunPc' = IF r.stun > 0 THEN "reading" ELSE stunPc
    /\ UNCHANGED <<d, stunAddrPort, stunLog, stunErr>>
    /\ UNCHANGED <<meshVars, wsVars>>
    /\ UNCHANGED fnVars

Start_Start ==
    /\ d # NULL
    /\ calls < MaxCalls
    /\ \E env \in StartEnv(d, identityFile) : Apply("start", StartStageStart(d, StageState, env))

\* ------------------------------------------------------- PostStart stage
\* lines 249-291: the federation client for one peer and its watch loop;
\* idx names the descriptor the loop was started for
startMeshWithHost(derpServer, options, idx) ==
    IF options.Dialer = "bad" THEN [err |-> "dialer", loop |-> NULL]
    ELSE IF options.TLS = "bad" THEN [err |-> "tls client", loop |-> NULL]
    ELSE [err |-> Nil,
          loop |-> [peer |-> options.Server, tls |-> options.TLS = "on",
                    meshKey |-> derpServer.meshKey, idx |-> idx]]

\* lines 227-232: for _, options := range d.meshWith, from index i on
RECURSIVE StartMeshFrom(_, _, _)
StartMeshFrom(dd, s, i) ==
    IF i > Len(dd.meshWith) THEN s
    ELSE LET r == startMeshWithHost(s.server, dd.meshWith[i], i)
         IN  IF r.err # Nil THEN [s EXCEPT !.err = r.err]
             ELSE StartMeshFrom(dd, [s EXCEPT !.mesh = Append(@, r.loop)], i + 1)

\* PostStart without the HasMeshKey test
StartStagePostStart_NoKeyTest(dd, s) ==
    IF Len(dd.meshWith) > 0
    THEN IF s.server = NULL THEN [s EXCEPT !.err = "panic"]
         ELSE StartMeshFrom(dd, s, 1)
    ELSE s

\* case adapter.StartStatePostStart, lines 222-233; d.server.HasMeshKey() on
\* a nil d.server is a nil-pointer panic
StartStagePostStart(dd, s) ==
    IF Len(dd.meshWith) > 0
    THEN IF s.server = NULL THEN [s EXCEPT !.err = "panic"]
         ELSE IF ~HasMeshKey(s.server) THEN [s EXCEPT !.err = "missing mesh psk"]
         ELSE StartMeshFrom(dd, s, 1)
    ELSE s

Start_PostStart ==
    /\ d # NULL
    /\ calls < MaxCalls
    /\ Apply("post-start", StartStagePostStart(d, StageState))

\* the stages the switch has no case for: adapter.StartStateInitialize, Started
OtherStages == {"initialize", "started"}

Start_Other ==
    /\ d # NULL
    /\ calls < MaxCalls
    /\ \E stage \in OtherStages : Apply(stage, StageState)

\* ------------------------------------------------------------------ Close
\* Close leaving the STUN listener out
CloseResources_NoSTUN == {"listener", "tlsConfig"}

\* Close also closing the federation clients
CloseResources_WithMeshClients == {"listener", "stunListener", "tlsConfig", "meshClients"}

\* the closers DERPInbound.Close hands to common.Close, lines 294-298
CloseResources == {"listener", "stunListener", "tlsConfig"}

\* common.Close: every closer is closed in turn, the failures are joined
CommonClose(closers, failing) ==
    [attempted |-> closers,
     joined    |-> closers \cap failing,
     err       |-> IF closers \cap failing = {} THEN Nil ELSE "close"]

Close ==
    /\ d # NULL
    /\ calls < MaxCalls
    /\ calls' = calls + 1
    /\ \E failing \in SUBSET {"listener", "stunListener", "tlsConfig"} :
         LET r == CommonClose(CloseResources, failing)
         IN  /\ lastCall' = [Call("close", r.err) EXCEPT !.attempted = r.attempted,
                                 !.failing = failing, !.joined = r.joined]
             /\ tcpListening' = (tcpListening /\ "listener" \notin r.attempted)
             /\ udpListening' = (udpListening /\ "stunListener" \notin r.attempted)
             /\ tlsStarted' = (tlsStarted /\ "tlsConfig" \notin r.attempted)
             /\ meshLoops' = IF "meshClients" \in r.attempted THEN Empty ELSE meshLoops
    /\ UNCHANGED <<d, server, identityFile, httpServing, stunLoops>>
    /\ UNCHANGED <<meshVars, wsVars, stunVars>>
    /\ UNCHANGED fnVars

\* ------------------------------------------------- a running relay inbound
\* The state NewDERPInbound, the Start stage and the PostStart stage leave
\* when nothing fails, for the mesh peers mw, on a host with no identity file.
RunningOptions(mw) ==
    [TLSEnabled |-> TRUE, ConfigPath |-> <<"k">>, STUNPort |-> 3478,
     MeshPSK |-> GoodKeyA, MeshPSKFile |-> Empty, MeshWith |-> mw]

NoNewErr == [dialerErr |-> FALSE, tlsErr |-> FALSE, root |-> FALSE]
NoStartErr == [store |-> NoStoreErr, keyFile |-> Missing, listen |-> NoListenErr]

InitRunning(mw) ==
    LET dd == NewDERPInboundResult(RunningOptions(mw), NoNewErr).d
        st == StartStageStart(dd, StageStateOf(Missing, NULL, FALSE, FALSE, FALSE), NoStartErr)
        ps == StartStagePostStart(dd, StageStateOf(st.file, st.server, st.tls, st.tcp, st.udp))
    IN  /\ d = dd
        /\ server = ps.server
        /\ identityFile = ps.file
        /\ tlsStarted = ps.tls
        /\ tcpListening = ps.tcp
        /\ udpListening = ps.udp
        /\ httpServing = st.http
        /\ stunLoops = st.stun
        /\ meshLoops = ps.mesh
        /\ calls = 2
        /\ lastCall = Call("post-start", ps.err)

\* -------------------------------------------------------- mesh federation
\* public keys of the clients homed on peer relays
PeerKeys == {"A", "B"}

\* derp.PeerPresentMessage / derp.PeerGoneMessage
PresenceMessages == [kind : {"present", "gone"}, key : PeerKeys]

\* the engine's forwarder table operations
AddPacketForwarder(table, key, fwd) == table \cup {<<key, fwd>>}
RemovePacketForwarder(table, key, fwd) == table \ {<<key, fwd>>}

\* line 287: add := func(m) { derpServer.AddPacketForwarder(m.Key, meshClient) }
add(table, meshClient, m) == AddPacketForwarder(table, m.key, meshClient)

\* a remove callback that deregisters nothing
remove_Unbound(table, meshClient, m) == table

\* a remove callback that deregisters the key whichever connection holds it
remove_AnyConnection(table, meshClient, m) == {e \in table : e[1] # m.key}

\* line 288: remove := func(m) { derpServer.RemovePacketForwarder(m.Peer, meshClient) }
remove(table, meshClient, m) == RemovePacketForwarder(table, m.key, meshClient)

RECURSIVE SumLen(_)
SumLen(q) == IF q = Empty THEN 0 ELSE Len(Head(q)) + SumLen(Tail(q))

\* a peer relay emits a presence message on mesh connection c
MeshPeerSends ==
    /\ SumLen(inbox) + SumLen(applied) < MaxEvents
    /\ \E c \in 1..Len(meshLoops), m \in PresenceMessages :
         inbox' = [inbox EXCEPT ![c] = Append(@, m)]
    /\ UNCHANGED <<inboundVars, forwarders, applied, wsVars, stunVars>>
    /\ UNCHANGED fnVars

\* line 289: the watch loop of connection c takes the next message it
\* received and calls add or remove with it; it runs under
\* context.Background(), which nothing cancels
WatchLoopHandles(c) ==
    /\ c \in 1..Len(meshLoops)
    /\ inbox[c] # Empty
    /\ LET m == Head(inbox[c])
       IN  /\ forwarders' = IF m.kind = "present" THEN add(forwarders, c, m)
                            ELSE remove(forwarders, c, m)
           /\ applied' = [applied EXCEPT ![c] = Append(@, m)]
    /\ inbox' = [inbox EXCEPT ![c] = Tail(@)]
    /\ UNCHANGED <<inboundVars, wsVars, stunVars>>

RunWatchConnectionLoop == \E c \in 1..Len(meshLoops) : WatchLoopHandles(c)
    /\ UNCHANGED fnVars

\* ------------------------------------------------------ transport bridge
UpperCase == <<"A", "B", "C", "D", "E", "F", "G", "H", "I", "J", "K", "L", "M",
               "N", "O", "P", "Q", "R", "S", "T", "U", "V", "W", "X", "Y", "Z">>
LowerCase == <<"a", "b", "c", "d", "e", "f", "g", "h", "i", "j", "k", "l", "m",
               "n", "o", "p", "q", "r", "s", "t", "u", "v", "w", "x", "y", "z">>

\* strings.ToLower
ToLower(str) ==
    [i \in 1..Len(str) |->
        IF \E j \in 1..Len(UpperCase) : UpperCase[j] = str[i]
        THEN LowerCase[CHOOSE j \in 1..Len(UpperCase) : UpperCase[j] = str[i]]
        ELSE str[i]]

\* strings.Contains
Contains(str, substr) ==
    \E i \in 0..(Len(str) - Len(substr)) : SubSeq(str, i + 1, i + Len(substr)) = substr

\* http.Header.Get: the first value of the header, "" when it has none
Get(values) == IF values = Empty THEN Empty ELSE values[1]

WebsocketText == <<"w", "e", "b", "s", "o", "c", "k", "e", "t">>
DerpText == <<"d", "e", "r", "p">>

\* the values of a request's Upgrade header lines
UpgradeHeaders ==
    { Empty,
      <<WebsocketText>>,
      << <<"W", "e", "b", "S", "o", "c", "k", "e", "t">> >>,
      << <<"h", "2", "c">> >> }

\* the values of a request's Sec-Websocket-Protocol header lines
ProtocolHeaders ==
    { Empty,
      <<DerpText>>,
      << <<"f", "o", "o">> >>,
      << <<"f", "o", "o", ",", " ", "d", "e", "r", "p">> >>,
      << <<"d", "e", "r", "p", "y">> >>,
      << <<"f", "o", "o">>, DerpText >> }

Requests == [Upgrade : UpgradeHeaders, SecWebsocketProtocol : ProtocolHeaders]

\* what websocket.Accept does with a request: an error, a panic, or a
\* connection with a negotiated subprotocol
\* (hijacked: the panic came after websocket.Accept took the connection from
\* net/http, which closes a connection it still owns when a handler panics)
Handshakes ==
    {[kind |-> "err", sub |-> Empty, hijacked |-> FALSE]}
    \cup [kind : {"panic"}, sub : {Empty}, hijacked : BOOLEAN]
    \cup [kind : {"ok"}, sub : {DerpText, Empty, <<"x">>}, hijacked : {TRUE}]

\* one handled request: the path taken, the handshake, whether the stream
\* reached s.Accept, the statuses c.Close was called with, in order, the
\* connection as the handler left it, and how the handler exited
NoRequest ==
    [req |-> [Upgrade |-> Empty, SecWebsocketProtocol |-> Empty], path |-> "none",
     handshake |-> "none", sub |-> Empty, accepted |-> FALSE, closes |-> Empty,
     conn |-> "open", exit |-> "none"]

\* the handler accepting whatever subprotocol was negotiated
ServeHTTP_AnySubprotocol(r, hs) ==
    LET up == ToLower(Get(r.Upgrade))
        rec == [NoRequest EXCEPT !.req = r]
    IN  IF up # WebsocketText \/ ~Contains(Get(r.SecWebsocketProtocol), DerpText)
        THEN [rec EXCEPT !.path = "base", !.exit = "return"]
        ELSE LET ws == [rec EXCEPT !.path = "ws", !.handshake = hs.kind, !.sub = hs.sub]
             IN  IF hs.kind = "err" THEN [ws EXCEPT !.exit = "return"]
                 ELSE IF hs.kind = "panic"
                      THEN [ws EXCEPT !.exit = "panic",
                                      !.conn = IF hs.hijacked THEN "open" ELSE "closed"]
                 ELSE [ws EXCEPT !.accepted = TRUE, !.exit = "running"]

\* lines 347-378: the handler up to its return, or up to the call of s.Accept
\* (exit "running"); the deferred c.Close of line 371 runs at every exit after
\* the handshake succeeded
ServeHTTP(r, hs) ==
    LET up == ToLower(Get(r.Upgrade))
        rec == [NoRequest EXCEPT !.req = r]
    IN  IF up # WebsocketText \/ ~Contains(Get(r.SecWebsocketProtocol), DerpText)
        THEN [rec EXCEPT !.path = "base", !.exit = "return"]
        ELSE LET ws == [rec EXCEPT !.path = "ws", !.handshake = hs.kind, !.sub = hs.sub]
             IN  IF hs.kind = "err" THEN [ws EXCEPT !.exit = "return"]
                 ELSE IF hs.kind = "panic"
                      THEN [ws EXCEPT !.exit = "panic",
                                      !.conn = IF hs.hijacked THEN "open" ELSE "closed"]
                 ELSE IF hs.sub # DerpText
                      THEN [ws EXCEPT !.closes = <<"StatusPolicyViolation", "StatusInternalError">>,
                                      !.conn = "closed", !.exit = "return"]
                      ELSE [ws EXCEPT !.accepted = TRUE, !.exit = "running"]

\* line 378 returning or panicking, then the deferred c.Close of line 371
AcceptExit(rec, how) ==
    [rec EXCEPT !.closes = Append(@, "StatusInternalError"), !.conn = "closed", !.exit = how]

HandleRequest ==
    /\ \E r \in Requests, hs \in Handshakes :
         LET rec == ServeHTTP(r, hs)
         IN  IF rec.exit = "running"
             THEN /\ Len(wsActive) < MaxSessions
                  /\ wsActive' = Append(wsActive, rec)
                  /\ UNCHANGED wsLast
             ELSE /\ wsLast' = rec
                  /\ UNCHANGED wsActive
    /\ UNCHANGED <<inboundVars, meshVars, stunVars>>
    /\ UNCHANGED fnVars

SessionEnds ==
    /\ \E i \in 1..Len(wsActive), how \in {"return", "panic"} :
         /\ wsLast' = AcceptExit(wsActive[i], how)
         /\ wsActive' = SubSeq(wsActive, 1, i - 1) \o SubSeq(wsActive, i + 1, Len(wsActive))
    /\ UNCHANGED <<inboundVars, meshVars, stunVars>>
    /\ UNCHANGED fnVars

\* ---------------------------------------------------------- STUN responder
TxIDs == {"t1", "t2"}
AddrPorts == {"10.0.0.1:1000", "10.0.0.2:2000"}
ZeroAddrPort == "invalid AddrPort"

\* a datagram: not STUN at all, a STUN message that is no binding request,
\* or a binding request; txid is its transaction id bytes
Datagrams == [kind : {"garbage", "stun", "binding"}, txid : TxIDs]

\* stun.Is, stun.ParseBindingRequest, stun.Response
Is(pkt) == pkt.kind \in {"stun", "binding"}
ParseBindingRequest(pkt) ==
    IF pkt.kind = "binding" THEN [err |-> Nil, txid |-> pkt.txid]
    ELSE [err |-> "not a binding request", txid |-> "zero"]
Response(txid, addrPort) == [txid |-> txid, addr |-> addrPort]

\* answering every STUN message, whatever ParseBindingRequest says
loopSTUNDatagram_ParseIgnored(pkt, addrPort) ==
    IF ~Is(pkt) THEN Empty
    ELSE LET r == ParseBindingRequest(pkt)
         IN  << [payload |-> Response(r.txid, addrPort), to |-> addrPort] >>

\* lines 418-426: what one iteration sends for the datagram it read
loopSTUNDatagram(pkt, addrPort) ==
    IF ~Is(pkt) THEN Empty
    ELSE LET r == ParseBindingRequest(pkt)
         IN  IF r.err # Nil THEN Empty
             ELSE << [payload |-> Response(r.txid, addrPort), to |-> addrPort] >>

\* errors ReadFromUDPAddrPort returns: the socket was closed, or another
\* (transient) failure
ReadErrors == {"closed", "other"}

\* E.IsClosedOrCanceled
IsClosedOrCanceled(err) == err \in {"closed", "canceled"}

\* a loop that returns on every read error
loopSTUNReadErr_AnyError(err) == "done"

\* lines 411-416: where the loop goes after a failed read: return, or
\* time.Sleep(time.Second) and continue
loopSTUNReadErr(err) == IF IsClosedOrCanceled(err) THEN "done" ELSE "reading"

\* line 410 reading a datagram, then lines 418-426; the result of
\* WriteToUDPAddrPort (sendErr) is discarded
STUNReadDatagram ==
    /\ stunPc = "reading"
    /\ udpListening
    /\ Len(stunLog) < MaxDatagrams
    /\ \E pkt \in Datagrams, src \in AddrPorts :
         LET sent == loopSTUNDatagram(pkt, src)
         IN  /\ stunAddrPort' = src
             /\ \E sendErr \in (IF sent = Empty THEN {FALSE} ELSE BOOLEAN) :
                  stunLog' = Append(stunLog, [pkt |-> pkt, src |-> src, sent |-> sent,
                                              sendErr |-> sendErr])
    /\ stunErr' = Nil
    /\ stunPc' = "reading"
    /\ UNCHANGED <<inboundVars, meshVars, wsVars>>
    /\ UNCHANGED fnVars

\* lines 411-416: a read of the open socket fails
STUNReadError ==
    /\ stunPc = "reading"
    /\ udpListening
    /\ \E err \in ReadErrors \ {"closed"} :
         /\ stunErr' = err
         /\ stunPc' = loopSTUNReadErr(err)
    /\ stunAddrPort' = ZeroAddrPort
    /\ UNCHANGED <<inboundVars, meshVars, wsVars, stunLog>>
    /\ UNCHANGED fnVars

\* lines 411-414: the read of a closed socket fails with a closed error
STUNReadClosed ==
    /\ stunPc = "reading"
    /\ ~udpListening
    /\ stunErr' = "closed"
    /\ stunPc' = loopSTUNReadErr("closed")
    /\ stunAddrPort' = ZeroAddrPort
    /\ UNCHANGED <<inboundVars, meshVars, wsVars, stunLog>>
    /\ UNCHANGED fnVars

\* --------------------------------------------------------- specifications
InitWSIdle ==
    /\ wsActive = Empty
    /\ wsLast = NoRequest

InitFnIdle ==
    /\ input = NULL
    /\ output = NULL

InitSTUNIdle ==
    /\ stunPc = "none"
    /\ stunAddrPort = ZeroAddrPort
    /\ stunLog = Empty
    /\ stunErr = Nil

\* the STUN loop a running inbound has launched, before its first read
InitSTUNRunning ==
    /\ stunPc = IF stunLoops > 0 THEN "reading" ELSE "none"
    /\ stunAddrPort = ZeroAddrPort
    /\ stunLog = Empty
    /\ stunErr = Nil

\* the relay inbound from its construction on
Init == InitInbound /\ InitMeshIdle /\ InitWSIdle /\ InitSTUNIdle /\ InitFnIdle

Next ==
    \/ NewDERPInbound
    \/ Start_Start
    \/ Start_PostStart
    \/ Start_Other
    \/ Close

Spec == Init /\ [][Next]_vars

\* the mesh watch loops of a running inbound
InitMesh ==
    /\ \E mw \in SeqsUpTo(PeerOptions, MaxPeers) : InitRunning(mw)
    /\ forwarders = {}
    /\ inbox = [c \in 1..Len(meshLoops) |-> Empty]
    /\ applied = [c \in 1..Len(meshLoops) |-> Empty]
    /\ InitWSIdle
    /\ InitSTUNRunning
    /\ InitFnIdle

NextMesh ==
    \/ MeshPeerSends
    \/ RunWatchConnectionLoop

SpecMesh == InitMesh /\ [][NextMesh]_vars

\* the mesh watch loops of a running inbound with two peers, and the
\* inbound's Close
InitMeshClose ==
    /\ InitRunning(<< [Server |-> "peerA", TLS |-> "off", Dialer |-> "ok"],
                      [Server |-> "peerB", TLS |-> "on", Dialer |-> "ok"] >>)
    /\ forwarders = {}
    /\ inbox = [c \in 1..Len(meshLoops) |-> Empty]
    /\ applied = [c \in 1..Len(meshLoops) |-> Empty]
    /\ InitWSIdle
    /\ InitSTUNRunning
    /\ InitFnIdle

NextMeshClose ==
    \/ MeshPeerSends
    \/ RunWatchConnectionLoop
    \/ Close

SpecMeshClose == InitMeshClose /\ [][NextMeshClose]_vars

\* the /derp handler of a running inbound
InitWS ==
    /\ InitRunning(Empty)
    /\ InitMeshIdle
    /\ InitWSIdle
    /\ InitSTUNRunning
    /\ InitFnIdle

NextWS ==
    \/ HandleRequest
    \/ SessionEnds

SpecWS == InitWS /\ [][NextWS]_vars

\* the STUN loop of a running inbound, and the inbound's Close
InitSTUN ==
    /\ InitRunning(Empty)
    /\ InitMeshIdle
    /\ InitWSIdle
    /\ InitSTUNRunning
    /\ InitFnIdle

NextSTUN ==
    \/ STUNReadDatagram
    \/ STUNReadError
    \/ STUNReadClosed
    \/ Close

SpecSTUN == InitSTUN /\ [][NextSTUN]_vars

\* the same, with the loop's goroutine scheduled fairly: a read of the closed
\* socket that can return does return
SpecSTUNLive == SpecSTUN /\ WF_vars(STUNReadClosed)

\* checkMeshKey applied to one text
\* the texts: every accepted key of one repeated digit, and GoodKey0 with one
\* position replaced, cut short, or with something put before or after it
KeyEdits == {"A", "F", "g", "\n", " ", "b"}

MeshKeyInputs ==
    {Rep(c, MeshKeyLen) : c \in HexLower}
    \cup {[GoodKey0 EXCEPT ![i] = c] : i \in 1..MeshKeyLen, c \in KeyEdits}
    \cup {SubSeq(GoodKey0, 1, n) : n \in 0..MeshKeyLen}
    \cup {GoodKey0 \o <<c>> : c \in KeyEdits}
    \cup {<<c>> \o GoodKey0 : c \in KeyEdits}
    \cup {GoodKeyA, ShortKey, LongKey, UpperKey, NonHexKey, NewlineKey}

InitKey ==
    /\ InitInbound
    /\ InitMeshIdle
    /\ InitWSIdle
    /\ InitSTUNIdle
    /\ input \in MeshKeyInputs
    /\ output = NULL

Call_checkMeshKey ==
    /\ output = NULL
    /\ output' = [ok |-> checkMeshKey(input)]
    /\ UNCHANGED <<inboundVars, meshVars, wsVars, stunVars, input>>

NextKey == Call_checkMeshKey

SpecKey == InitKey /\ [][NextKey]_vars

\* the key store called once per start of the process, on the same path
InitStore ==
    /\ InitInbound
    /\ InitMeshIdle
    /\ InitWSIdle
    /\ InitSTUNIdle
    /\ InitFnIdle

\* input: the env of the call; output: per call, the file it found and what
\* it returned
Call_readDERPConfig ==
    /\ Len(output) < MaxLoads
    /\ \E env \in StoreEnv(identityFile) :
         LET r == readDERPConfig(identityFile, env)
         IN  /\ identityFile' = r.file
             /\ input' = env
             /\ output' = Append(output, [before |-> identityFile, err |-> r.err,
                                          config |-> r.config])
    /\ UNCHANGED <<d, server, tlsStarted, tcpListening, udpListening, httpServing,
                   stunLoops, meshLoops, calls, lastCall>>
    /\ UNCHANGED <<meshVars, wsVars, stunVars>>

NextStore == Call_readDERPConfig

SpecStore == InitStore /\ [][NextStore]_vars

\* getHomeHandler, and the Start stage of an inbound whose home field holds
\* the value, applied to one home value
HomeValues ==
    { Empty, BlankValue,
      <<"B", "l", "a", "n", "k">>, BlankValue \o <<" ">>, <<"b", "l", "a", "n">>,
      HttpPrefix, HttpsPrefix,
      HttpPrefix \o <<"a">>, HttpsPrefix \o <<"a">>,
      <<"h", "t", "t", "p", ":", "/", "a">>, <<"h", "t", "t", "p", "s", ":", "/">>,
      <<"H", "T", "T", "P", ":", "/", "/", "a">>,
      <<"f", "t", "p", ":", "/", "/", "a">>,
      <<"x">> \o HttpPrefix \o <<"a">>, <<" ">>, <<"a">> }

InitHome ==
    /\ InitInbound
    /\ InitMeshIdle
    /\ InitWSIdle
    /\ InitSTUNIdle
    /\ input \in HomeValues
    /\ output = NULL

Call_getHomeHandler ==
    /\ output = NULL
    /\ LET dd == [NewDERPInboundResult(RunningOptions(Empty), NoNewErr).d EXCEPT !.home = input]
           s == StageStateOf(identityFile, NULL, FALSE, FALSE, FALSE)
       IN  \E env \in StartEnv(dd, identityFile) :
             output' = [handler |-> getHomeHandler(input),
                        start   |-> StartStageStart(dd, s, env).err]
    /\ UNCHANGED <<inboundVars, meshVars, wsVars, stunVars, input>>

NextHome == Call_getHomeHandler

SpecHome == InitHome /\ [][NextHome]_vars

\* ------------------------------------------------------------ properties
\* the loops the step from the unprimed to the primed state started
StartedLoops == SubSeq(meshLoops', Len(meshLoops) + 1, Len(meshLoops'))

StageStep(op) == calls' = calls + 1 /\ lastCall'.op = op

\* C1: whenever the Start stage returns an error, no background task was
\* launched by it: neither the HTTP serve task nor the STUN loop.
C1_FailedStartLaunchedNothing ==
    [][(StageStep("start") /\ lastCall'.err # Nil)
        => (httpServing' = httpServing /\ stunLoops' = stunLoops)]_vars

\* C2: a mesh key installed in the engine, and the key of every federation
\* connection, satisfies checkMeshKey; an inbound is only constructed with an
\* empty or well-formed inline key, and a Start stage that read a malformed
\* key file failed (so no later PostStart finds an engine with that key).
C2_InstalledMeshKeyValid ==
    /\ d # NULL => (d.meshKey = Empty \/ checkMeshKey(d.meshKey))
    /\ server # NULL => (server.meshKey = Empty \/ checkMeshKey(server.meshKey))
    /\ \A i \in 1..Len(meshLoops) : checkMeshKey(meshLoops[i].meshKey)
    /\ (lastCall.op = "start" /\ lastCall.read # Unread /\ ~checkMeshKey(lastCall.read))
         => (lastCall.err # Nil /\ (server # NULL => server.meshKey # lastCall.read))

\* a key read from the key file is installed and used by a federation connection
C2_Witness ==
    /\ server # NULL
    /\ d.meshKey = Empty
    /\ server.meshKey = GoodKey0
    /\ Len(meshLoops) > 0
    /\ meshLoops[1].meshKey = GoodKey0

\* C3: PostStart with peers configured and no mesh key in the engine returns
\* an error and starts no loop; a PostStart that succeeds with a mesh key has
\* started exactly one loop per configured peer, in order; PostStart with no
\* peers succeeds and starts none.
C3_PostStartMeshLoops ==
    [][StageStep("post-start") =>
        LET n == Len(d.meshWith)
        IN  /\ (n > 0 /\ server # NULL /\ server.meshKey = Empty)
                 => (lastCall'.err # Nil /\ StartedLoops = Empty)
            /\ (n > 0 /\ server # NULL /\ server.meshKey # Empty /\ lastCall'.err = Nil)
                 => /\ Len(StartedLoops) = n
                    /\ \A i \in 1..n : /\ StartedLoops[i].idx = i
                                       /\ StartedLoops[i].peer = d.meshWith[i].Server
            /\ (n = 0) => (lastCall'.err = Nil /\ StartedLoops = Empty)
            /\ SubSeq(meshLoops', 1, Len(meshLoops)) = meshLoops]_vars

\* a PostStart with two peers succeeded and two loops run
C3_Witness ==
    /\ lastCall.op = "post-start"
    /\ lastCall.err = Nil
    /\ Len(d.meshWith) = 2
    /\ Len(meshLoops) = 2

\* C4: when starting the federator of one peer fails, every other configured
\* peer (before or after it) whose own start does not fail still gets its
\* loop started by that PostStart.
C4_OtherPeersStillStarted ==
    [][(StageStep("post-start") /\ server # NULL /\ server.meshKey # Empty)
        => \A j \in 1..Len(d.meshWith) :
              (d.meshWith[j].TLS # "bad" /\ d.meshWith[j].Dialer # "bad")
                => \E i \in 1..Len(StartedLoops) : StartedLoops[i].idx = j]_vars

\* C6: every Close attempts the TCP listener, the STUN listener and the TLS
\* resource whichever of them fail, and returns the failures joined (nil only
\* if none failed).
C6_CloseAttemptsAll ==
    lastCall.op = "close" =>
        /\ lastCall.attempted = {"listener", "stunListener", "tlsConfig"}
        /\ lastCall.joined = lastCall.failing
        /\ (lastCall.err = Nil) <=> (lastCall.failing = {})

\* closing the first two resources failed after a successful start with STUN
C6_Witness ==
    /\ lastCall.op = "close"
    /\ lastCall.failing = {"listener", "stunListener"}
    /\ "tlsConfig" \in lastCall.attempted
    /\ ~tlsStarted
    /\ stunLoops > 0

\* the kind of the last message about key in a sequence of presence messages
RECURSIVE LastKind(_, _)
LastKind(msgs, key) ==
    IF msgs = Empty THEN "none"
    ELSE IF msgs[Len(msgs)].key = key THEN msgs[Len(msgs)].kind
    ELSE LastKind(SubSeq(msgs, 1, Len(msgs) - 1), key)

\* C5: after any sequence of peer-present / peer-gone messages handled on one
\* mesh connection, the keys registered to that connection are exactly the
\* keys whose last handled message was peer-present.
C5_PresenceAppliedInOrder ==
    \A c \in 1..Len(meshLoops) : \A key \in PeerKeys :
        (<<key, c>> \in forwarders) <=> (LastKind(applied[c], key) = "present")

\* [present(A), present(B), gone(A)] was handled on connection 1
C5_Witness ==
    /\ Len(meshLoops) >= 1
    /\ applied[1] = << [kind |-> "present", key |-> "A"],
                       [kind |-> "present", key |-> "B"],
                       [kind |-> "gone", key |-> "A"] >>
    /\ {key \in PeerKeys : <<key, 1>> \in forwarders} = {"B"}

\* every request handled so far: in a session, or the last to exit
Handled == {wsActive[i] : i \in 1..Len(wsActive)} \cup {wsLast}

\* C7: on the WebSocket path a stream reaches the engine's accept only after
\* a successful handshake that negotiated exactly "derp"; any other
\* negotiated subprotocol closes the connection with the policy-violation
\* status first and never reaches accept.
C7_OnlyDerpAccepted ==
    \A rec \in Handled :
        /\ rec.accepted => (rec.path = "ws" /\ rec.handshake = "ok" /\ rec.sub = DerpText)
        /\ (rec.path = "ws" /\ rec.handshake = "ok" /\ rec.sub # DerpText)
             => /\ ~rec.accepted
                /\ rec.closes # Empty
                /\ rec.closes[1] = "StatusPolicyViolation"
                /\ rec.conn = "closed"

\* a handshake that negotiated no subprotocol was closed for policy violation
C7_Witness ==
    /\ wsLast.path = "ws"
    /\ wsLast.handshake = "ok"
    /\ wsLast.sub = Empty
    /\ wsLast.closes[1] = "StatusPolicyViolation"
    /\ ~wsLast.accepted

\* C8: every request that entered the WebSocket path has its connection
\* closed once the handler has exited, whatever the exit path.
C8_ClosedOnEveryExit ==
    \A rec \in Handled :
        (rec.path = "ws" /\ rec.exit \in {"return", "panic"}) => rec.conn = "closed"

\* the comma-separated pieces of a header value
RECURSIVE SplitComma(_)
SplitComma(str) ==
    IF \E i \in 1..Len(str) : str[i] = ","
    THEN LET i == CHOOSE i \in 1..Len(str) :
                     str[i] = "," /\ \A j \in 1..(i - 1) : str[j] # ","
         IN  {SubSeq(str, 1, i - 1)} \cup SplitComma(SubSeq(str, i + 1, Len(str)))
    ELSE {str}

RECURSIVE TrimSpace(_)
TrimSpace(str) ==
    IF str # Empty /\ str[1] = " " THEN TrimSpace(Tail(str))
    ELSE IF str # Empty /\ str[Len(str)] = " " THEN TrimSpace(SubSeq(str, 1, Len(str) - 1))
    ELSE str

\* the tokens of a header, over all its lines
Tokens(values) ==
    UNION {{TrimSpace(piece) : piece \in SplitComma(values[i])} : i \in 1..Len(values)}

\* C9: a request takes the WebSocket path if and only if its Upgrade header
\* equals "websocket" case-insensitively and its Sec-Websocket-Protocol header
\* contains the token "derp"; every other request goes to the plain handler,
\* and every request takes exactly one of the two paths.
C9_RoutedByUpgradeAndToken ==
    \A rec \in Handled :
        rec.path # "none" =>
            /\ rec.path \in {"ws", "base"}
            /\ (rec.path = "ws") <=> (/\ ToLower(Get(rec.req.Upgrade)) = WebsocketText
                                      /\ DerpText \in Tokens(rec.req.SecWebsocketProtocol))

\* C10: for every datagram the loop read it sent at most one response, and
\* one exactly when the datagram is a STUN binding request; the response
\* carries that datagram's transaction id and source address and went to
\* that source, whatever was read before.
C10_OneResponsePerBindingRequest ==
    \A i \in 1..Len(stunLog) :
        LET e == stunLog[i]
        IN  /\ Len(e.sent) <= 1
            /\ (Len(e.sent) = 1) <=> (e.pkt.kind = "binding")
            /\ Len(e.sent) = 1 =>
                 e.sent[1] = [payload |-> [txid |-> e.pkt.txid, addr |-> e.src], to |-> e.src]

\* a binding request from one address was answered after a non-STUN datagram
\* and a request from another address
C10_Witness ==
    /\ Len(stunLog) >= 2
    /\ \E i \in 1..(Len(stunLog) - 1) :
         /\ stunLog[i].src # stunLog[Len(stunLog)].src
         /\ stunLog[i].pkt.txid # stunLog[Len(stunLog)].pkt.txid
    /\ stunLog[Len(stunLog)].pkt.kind = "binding"
    /\ Len(stunLog[Len(stunLog)].sent) = 1
    /\ \E i \in 1..Len(stunLog) : stunLog[i].pkt.kind = "garbage" /\ stunLog[i].sent = Empty

\* C11: the STUN loop returns only from a read that failed with a
\* closed-or-canceled error, and it handles no datagram in that step; after
\* any other read error, and after any datagram (not STUN, not a binding
\* request, or answered with a send that failed), it is still reading.
C11_LoopEndsOnlyOnClosedRead ==
    [][stunPc = "reading" =>
        /\ stunPc' \in {"reading", "done"}
        /\ stunPc' = "done" => (stunErr' \in {"closed", "canceled"} /\ stunLog' = stunLog)
        /\ stunErr' \notin {"closed", "canceled"} => stunPc' = "reading"
        /\ Len(stunLog') > Len(stunLog) => stunPc' = "reading"]_vars

\* the loop is reading after a STUN message that is no binding request, a
\* binding request whose response could not be sent, and a transient error
C11_Witness ==
    /\ stunPc = "reading"
    /\ stunErr = "other"
    /\ \E i \in 1..Len(stunLog) : stunLog[i].pkt.kind = "stun"
    /\ \E i \in 1..Len(stunLog) : stunLog[i].sendErr

\* C12: checkMeshKey accepts a text if and only if it has exactly 64
\* characters, each of them one of 0-9 and a-f; a text of another length, with
\* another character or an uppercase hex digit, or a valid key followed by a
\* newline is rejected.
C12_AcceptsExactly64LowerHex ==
    output # NULL =>
        (output.ok <=>
            /\ Len(input) = 64
            /\ \A i \in 1..Len(input) :
                  input[i] \in {"0", "1", "2", "3", "4", "5", "6", "7", "8", "9"}
                                \cup {"a", "b", "c", "d", "e", "f"})

\* a valid key followed by a newline was rejected
C12_Witness ==
    /\ output # NULL
    /\ input = NewlineKey
    /\ ~output.ok

\* C13: a call of the key store that finds a file at the path leaves its
\* content as it was; it returns the identity the file holds when the file
\* can be read and parses, and an error and no identity when reading fails
\* or the content does not parse.
C13_ExistingFileNeverRewritten ==
    [][(identityFile # Missing /\ Len(output') = Len(output) + 1) =>
        LET r == output'[Len(output')]
            u == Unmarshal(identityFile)
        IN  /\ identityFile' = identityFile
            /\ (input'.readErr \/ u.err # Nil) => (r.err # Nil /\ r.config = NULL)
            /\ (~input'.readErr /\ u.err = Nil) => (r.err = Nil /\ r.config = u.config)]_vars

\* a call found a file that does not parse, failed and left it as it was
C13_Witness ==
    /\ Len(output) >= 1
    /\ output[Len(output)].before # Missing
    /\ Unmarshal(output[Len(output)].before).err # Nil
    /\ output[Len(output)].err # Nil
    /\ identityFile = output[Len(output)].before

\* C14: a call that finds no file and succeeds returns the identity it
\* generated and leaves it persisted, and every later successful call on the
\* path returns that same identity.
C14_IdentityStableAcrossRestarts ==
    \A i \in 1..Len(output) :
        (output[i].before = Missing /\ output[i].err = Nil) =>
            /\ output[i].config.PrivateKey \in NodeKeys
            /\ \A j \in (i + 1)..Len(output) :
                  /\ output[j].before # Missing
                  /\ output[j].err = Nil => output[j].config = output[i].config

\* the identity generated by the first call was returned by two later calls
C14_Witness ==
    /\ Len(output) = 3
    /\ output[1].before = Missing
    /\ output[1].err = Nil
    /\ output[2].err = Nil
    /\ output[3].err = Nil
    /\ output[3].config = output[1].config

\* C15: the empty home value selects the default page with status 200,
\* "blank" an empty body with status 200, a value that starts with http:// or
\* https:// a 302 redirect to that value; for any other value no handler is
\* selected and the Start stage returns an error, while a Start stage given
\* one of the first three never fails for the home value.
C15_HomePageSelection ==
    output # NULL =>
        LET h == output.handler
            isURL == \/ Len(input) >= 7 /\ SubSeq(input, 1, 7) = <<"h", "t", "t", "p", ":", "/", "/">>
                     \/ Len(input) >= 8 /\ SubSeq(input, 1, 8) = <<"h", "t", "t", "p", "s", ":", "/", "/">>
        IN  IF input = << >> THEN h.ok /\ h.status = 200 /\ h.body = "homePage"
            ELSE IF input = <<"b", "l", "a", "n", "k">> THEN h.ok /\ h.status = 200 /\ h.body = ""
            ELSE IF isURL THEN h.ok /\ h.status = 302 /\ h.location = input
            ELSE ~h.ok /\ output.start # Nil
        /\ (output.handler.ok => output.start # "invalid home value")

\* a value with another scheme made the Start stage fail for the home value
C15_Witness ==
    /\ output # NULL
    /\ input = <<"f", "t", "p", ":", "/", "/", "a">>
    /\ ~output.handler.ok
    /\ output.start = "invalid home value"

\* C16: a step of the watch loop of connection x changes no registration
\* held by another connection, and a peer-gone(key) it handles removes at most
\* the registration of that key to x.
C16_GoneRemovesOnlyOwnRegistration ==
    [][\A x \in 1..Len(meshLoops) :
         applied'[x] # applied[x] =>
            LET m == applied'[x][Len(applied'[x])]
            IN  /\ \A e \in forwarders : e[2] # x => e \in forwarders'
                /\ \A e \in forwarders' : e[2] # x => e \in forwarders
                /\ m.kind = "gone" => /\ forwarders' \subseteq forwarders
                                       /\ forwarders \ forwarders' \subseteq {<<m.key, x>>}]_vars

\* connections 1 and 2 registered key A, then connection 1 handled gone(A):
\* the registration to connection 2 is still there
C16_Witness ==
    /\ Len(meshLoops) = 2
    /\ applied[1] = << [kind |-> "present", key |-> "A"], [kind |-> "gone", key |-> "A"] >>
    /\ applied[2] = << [kind |-> "present", key |-> "A"] >>
    /\ forwarders = {<<"A", 2>>}

\* C17: once Close has been invoked on an inbound whose STUN loop is reading,
\* the loop eventually returns, and from the Close on it handles no datagram
\* and sends no response.
C17_CloseEndsSTUNLoop ==
    /\ (lastCall.op = "close" /\ stunPc = "reading") ~> (stunPc = "done")
    /\ [][lastCall.op = "close" => stunLog' = stunLog]_vars

\* the loop answered a binding request, Close was invoked, the loop returned
\* from a read that failed with the closed error
C17_Witness ==
    /\ lastCall.op = "close"
    /\ stunPc = "done"
    /\ stunErr = "closed"
    /\ ~udpListening
    /\ \E i \in 1..Len(stunLog) : Len(stunLog[i].sent) = 1

\* C18: no step ends a started watch loop: Close leaves every loop as it
\* was, and after Close every loop that has received a message can still
\* handle it, changing the engine's forwarder table.
C18_WatchLoopsOutliveClose ==
    /\ [][SubSeq(meshLoops', 1, Len(meshLoops)) = meshLoops]_vars
    /\ [](lastCall.op = "close" =>
            \A c \in 1..Len(inbox) :
                /\ c \in 1..Len(meshLoops)
                /\ inbox[c] # Empty => ENABLED WatchLoopHandles(c))

\* Close released the listeners and the TLS resource; two loops run, one of
\* them with a registration in the table and a peer-gone for it to handle
C18_Witness ==
    /\ lastCall.op = "close"
    /\ ~tcpListening /\ ~udpListening /\ ~tlsStarted
    /\ Len(meshLoops) = 2
    /\ forwarders = {<<"A", 2>>}
    /\ inbox[2] = << [kind |-> "gone", key |-> "A"] >>
    /\ ENABLED WatchLoopHandles(2)

\* C19: a Start stage of an inbound with STUN port zero binds no UDP socket
\* and starts no STUN loop; a Start stage that succeeds with a non-zero port
\* has bound the socket and started exactly one loop; a loop is only started
\* by a Start stage with a non-zero port that has started TLS termination,
\* bound the TCP listener and launched the HTTP serve task; so a loop exists
\* only if the port is non-zero.
C19_STUNOnlyWithPort ==
    /\ [](stunLoops > 0 => (d # NULL /\ d.stunPort # 0))
    /\ [][/\ (StageStep("start") /\ d.stunPort = 0)
              => (stunLoops' = stunLoops /\ udpListening' = udpListening)
          /\ (StageStep("start") /\ d.stunPort # 0 /\ lastCall'.err = Nil)
              => (stunLoops' = stunLoops + 1 /\ udpListening')
          /\ stunLoops' # stunLoops
              => /\ StageStep("start")
                 /\ d.stunPort # 0
                 /\ stunLoops' = stunLoops + 1
                 /\ tlsStarted' /\ tcpListening' /\ udpListening'
                 /\ httpServing' = httpServing + 1]_vars

\* a Start stage with STUN port 3478 succeeded: one loop, one serve task
C19_Witness ==
    /\ lastCall.op = "start"
    /\ lastCall.err = Nil
    /\ d.stunPort = 3478
    /\ stunLoops = 1
    /\ udpListening
    /\ httpServing = 1

\* C20: only a PostStart stage starts mesh loops, and only on an engine that
\* an earlier Start stage built and gave a mesh key; a PostStart stage on an
\* inbound without engine starts none; only a Start stage sets the engine;
\* the other stages return nil and change nothing of the inbound.
C20_MeshLoopsOnlyFromPostStart ==
    [][/\ meshLoops' # meshLoops
           => /\ StageStep("post-start")
              /\ server # NULL
              /\ server.meshKey # Empty
              /\ server' = server
       /\ (StageStep("post-start") /\ server = NULL) => meshLoops' = meshLoops
       /\ server' # server => StageStep("start")
       /\ (StageStep("initialize") \/ StageStep("started"))
           => /\ lastCall'.err = Nil
              /\ UNCHANGED <<d, server, identityFile, tlsStarted, tcpListening,
                             udpListening, httpServing, stunLoops, meshLoops>>]_vars

\* Start, then PostStart started the loop of the one peer, then another
\* stage was invoked
C20_Witness ==
    /\ lastCall.op \in {"initialize", "started"}
    /\ calls = 3
    /\ server # NULL
    /\ server.meshKey # Empty
    /\ Len(d.meshWith) = 1
    /\ Len(meshLoops) = 1

====
